---- MODULE Spec2Model ----
(***************************************************************************)
(* Model of crates/string-offsets/src/bitrank.rs: a bit vector built by    *)
(* BitRankBuilder (push*, finish) and queried through BitRank (rank,       *)
(* max_rank, rank_select).                                                 *)
(*                                                                         *)
(* A sub-block word (u128 in the source) is a natural number below         *)
(* 2^BITS_PER_SUB_BLOCK; the bit operations of the source (<<, >>, &, ^,   *)
(* count_ones, trailing_zeros) are computed arithmetically on it.  The     *)
(* word width and the number of words of a block are scaled down; every    *)
(* other size is derived from them as in the source.                       *)
(*                                                                         *)
(* Block.rank is a u64 and usize is 64 bits wide: with at most MaxPushes   *)
(* bits set neither can wrap, so both are plain naturals here.  The u16    *)
(* arithmetic of finish_last_block keeps its width.                        *)
(***************************************************************************)
EXTENDS Integers, Sequences, FiniteSets, TLC

\* ---------------------------------------------------------------- sizes
\* Width in bits of SubblockBits (u128 in the source), scaled down.
BITS_PER_SUB_BLOCK == 3

\* Number of sub-block words of a block (16384 / 128 in the source), scaled down.
BlockWords == 2

BITS_PER_BLOCK == BlockWords * BITS_PER_SUB_BLOCK

SUB_BLOCKS_PER_BLOCK == BITS_PER_BLOCK \div BITS_PER_SUB_BLOCK

\* Number of values of a u16 (the element type of Block.sub_blocks).
U16 == 65536

\* Largest position a caller pushes.
MaxPos == 17

\* Largest number of accepted pushes of one builder.
MaxPushes == 3

\* Largest index a caller queries; MaxPos + 1 and MaxPos + 2 lie beyond every
\* pushed position.
MaxIdx == MaxPos + 2

\* ---------------------------------------------------------------- Option
None == <<>>

Some(x) == <<x>>

\* ---------------------------------------------------------------- words
\* 1 << n
Pow2(n) == 2 ^ n

RECURSIVE count_ones(_)
\* u128::count_ones
count_ones(x) == IF x = 0 THEN 0 ELSE (x % 2) + count_ones(x \div 2)

RECURSIVE trailing_zeros(_)
\* u128::trailing_zeros, used by the source on non-zero words only
trailing_zeros(x) == IF x % 2 = 1 THEN 0 ELSE 1 + trailing_zeros(x \div 2)

\* x & mask, for a mask with a single bit set
BitAnd1(x, mask) == ((x \div mask) % 2) * mask

\* x ^ mask, for a mask with a single bit set
BitXor1(x, mask) == IF BitAnd1(x, mask) = 0 THEN x + mask ELSE x - mask

\* ---------------------------------------------------------------- Block
SubIdx == 0 .. (SUB_BLOCKS_PER_BLOCK - 1)

ZERO_BLOCK == [rank |-> 0,
               sub_blocks |-> [i \in SubIdx |-> 0],
               bits |-> [i \in SubIdx |-> 0]]

\* Block::set with the bits stored lsb-first (mask = 1 << bit_idx).
Block_set_lsb(block, index) ==
    LET chunk_idx == index \div BITS_PER_SUB_BLOCK
        bit_idx == index % BITS_PER_SUB_BLOCK
        mask == Pow2(bit_idx)
    IN  IF ~(index < BITS_PER_BLOCK) \/ BitAnd1(block.bits[chunk_idx], mask) # 0
        THEN [panic |-> TRUE, block |-> block]
        ELSE [panic |-> FALSE,
              block |-> [block EXCEPT !.bits[chunk_idx] = BitXor1(@, mask)]]

\* Block::set without the assert_eq!: a set bit is toggled off.
Block_set_unchecked(block, index) ==
    LET chunk_idx == index \div BITS_PER_SUB_BLOCK
        bit_idx == index % BITS_PER_SUB_BLOCK
        mask == Pow2((BITS_PER_SUB_BLOCK - 1) - bit_idx)
    IN  [panic |-> FALSE,
         block |-> [block EXCEPT !.bits[chunk_idx] = BitXor1(@, mask)]]

\* Block::set.  panic is TRUE when one of the two assertions fails; the block
\* is then left as it was.
Block_set(block, index) ==
    LET chunk_idx == index \div BITS_PER_SUB_BLOCK
        bit_idx == index % BITS_PER_SUB_BLOCK
        mask == Pow2((BITS_PER_SUB_BLOCK - 1) - bit_idx)
    IN  IF ~(index < BITS_PER_BLOCK) \/ BitAnd1(block.bits[chunk_idx], mask) # 0
        THEN [panic |-> TRUE, block |-> block]
        ELSE [panic |-> FALSE,
              block |-> [block EXCEPT !.bits[chunk_idx] = BitXor1(@, mask)]]

\* Block::rank_select that forgets the sub-block prefix count.
Block_rank_select_nosub(block, local_idx) ==
    LET remainder == local_idx % BITS_PER_SUB_BLOCK
        last_chunk == local_idx \div BITS_PER_SUB_BLOCK
        masked == IF remainder = 0 THEN 0
                  ELSE block.bits[last_chunk] \div Pow2(BITS_PER_SUB_BLOCK - remainder)
    IN  <<block.rank + count_ones(masked),
          IF masked = 0 THEN None
          ELSE Some(local_idx - trailing_zeros(masked) - 1)>>

\* Block::rank_select whose select forgets the "- 1".
Block_rank_select_off(block, local_idx) ==
    LET sub_block == local_idx \div BITS_PER_SUB_BLOCK
        remainder == local_idx % BITS_PER_SUB_BLOCK
        last_chunk == local_idx \div BITS_PER_SUB_BLOCK
        masked == IF remainder = 0 THEN 0
                  ELSE block.bits[last_chunk] \div Pow2(BITS_PER_SUB_BLOCK - remainder)
    IN  <<block.rank + block.sub_blocks[sub_block] + count_ones(masked),
          IF masked = 0 THEN None
          ELSE Some(local_idx - trailing_zeros(masked))>>

\* Block::rank_select whose select scans from the first bit of the word: it
\* returns the lowest set bit before local_idx instead of the highest.
Block_rank_select_first(block, local_idx) ==
    LET sub_block == local_idx \div BITS_PER_SUB_BLOCK
        remainder == local_idx % BITS_PER_SUB_BLOCK
        last_chunk == local_idx \div BITS_PER_SUB_BLOCK
        masked == IF remainder = 0 THEN 0
                  ELSE block.bits[last_chunk] \div Pow2(BITS_PER_SUB_BLOCK - remainder)
        first == CHOOSE j \in 0 .. (remainder - 1) :
                    /\ (masked \div Pow2(remainder - 1 - j)) % 2 = 1
                    /\ \A h \in 0 .. (j - 1) : (masked \div Pow2(remainder - 1 - h)) % 2 = 0
    IN  <<block.rank + block.sub_blocks[sub_block] + count_ones(masked),
          IF masked = 0 THEN None
          ELSE Some(local_idx - remainder + first)>>

\* Block::rank_select: <<rank, select>>.
Block_rank_select(block, local_idx) ==
    LET sub_block == local_idx \div BITS_PER_SUB_BLOCK
        remainder == local_idx % BITS_PER_SUB_BLOCK
        last_chunk == local_idx \div BITS_PER_SUB_BLOCK
        masked == IF remainder = 0 THEN 0
                  ELSE block.bits[last_chunk] \div Pow2(BITS_PER_SUB_BLOCK - remainder)
    IN  <<block.rank + block.sub_blocks[sub_block] + count_ones(masked),
          IF masked = 0 THEN None
          ELSE Some(local_idx - trailing_zeros(masked) - 1)>>

\* Block::total_rank that forgets the base rank of the block.
Block_total_rank_local(block) ==
    block.sub_blocks[SUB_BLOCKS_PER_BLOCK - 1]
        + count_ones(block.bits[SUB_BLOCKS_PER_BLOCK - 1])

\* Block::total_rank.  The slice bits[SUB_BLOCKS_PER_BLOCK - 1..] holds one word.
Block_total_rank(block) ==
    block.sub_blocks[SUB_BLOCKS_PER_BLOCK - 1]
        + block.rank
        + count_ones(block.bits[SUB_BLOCKS_PER_BLOCK - 1])

\* ---------------------------------------------------------------- BitRankBuilder
RECURSIVE finish_loop(_, _, _)
\* The for loop of finish_last_block over block.bits, from word i on:
\* sub_blocks[i] = local_rank; local_rank += chunk.count_ones() as u16.
finish_loop(block, i, local_rank) ==
    IF i = SUB_BLOCKS_PER_BLOCK
    THEN [block |-> block, local_rank |-> local_rank]
    ELSE finish_loop([block EXCEPT !.sub_blocks[i] = local_rank],
                     i + 1,
                     (local_rank + (count_ones(block.bits[i]) % U16)) % U16)

\* finish_last_block that returns the running rank but leaves sub_blocks alone.
finish_last_block_lazy(blocks) ==
    IF blocks # <<>>
    THEN LET block == blocks[Len(blocks)]
             done == finish_loop(block, 0, 0)
         IN  [blocks |-> blocks, rank |-> block.rank + done.local_rank]
    ELSE [blocks |-> blocks, rank |-> 0]

\* BitRankBuilder::finish_last_block: the blocks with the sub_blocks of the
\* last one written, and the returned rank.
finish_last_block(blocks) ==
    IF blocks # <<>>
    THEN LET block == blocks[Len(blocks)]
             done == finish_loop(block, 0, 0)
         IN  [blocks |-> [blocks EXCEPT ![Len(blocks)] = done.block],
              rank |-> block.rank + done.local_rank]
    ELSE [blocks |-> blocks, rank |-> 0]

\* The while loop of push leaving after its first iteration.
append_blocks_once(blocks, block_id, curr_rank) ==
    IF block_id >= Len(blocks)
    THEN Append(blocks, [ZERO_BLOCK EXCEPT !.rank = curr_rank])
    ELSE blocks

RECURSIVE append_blocks(_, _, _)
\* The while loop of push: ZERO_BLOCKs seeded with curr_rank are appended
\* until block block_id exists.
append_blocks(blocks, block_id, curr_rank) ==
    IF block_id >= Len(blocks)
    THEN append_blocks(Append(blocks, [ZERO_BLOCK EXCEPT !.rank = curr_rank]),
                       block_id, curr_rank)
    ELSE blocks

\* BitRankBuilder::push.  panic is TRUE when the assert! of push or an
\* assertion of Block::set fails; blocks is the builder's vector when push
\* returns or unwinds.
push(blocks, position) ==
    LET block_id == position \div BITS_PER_BLOCK
    IN  IF ~(Len(blocks) <= block_id + 1)
        THEN [panic |-> TRUE, blocks |-> blocks]
        ELSE LET grown == IF block_id >= Len(blocks)
                          THEN LET fin == finish_last_block(blocks)
                               IN  append_blocks(fin.blocks, block_id, fin.rank)
                          ELSE blocks
                 res == Block_set(grown[Len(grown)], position % BITS_PER_BLOCK)
             IN  [panic |-> res.panic,
                  blocks |-> [grown EXCEPT ![Len(grown)] = res.block]]

\* BitRankBuilder::finish: the blocks of the BitRank.
finish(blocks) == finish_last_block(blocks).blocks

\* ---------------------------------------------------------------- BitRank
\* BitRank::max_rank
max_rank(blocks) ==
    IF blocks # <<>> THEN Block_total_rank(blocks[Len(blocks)]) ELSE 0

\* BitRank::rank_select answering <<0, None>> beyond the last block.
rank_select_zero(blocks, idx) ==
    LET block_num == idx \div BITS_PER_BLOCK
    IN  IF block_num >= Len(blocks)
        THEN <<0, None>>
        ELSE LET r == Block_rank_select(blocks[block_num + 1], idx % BITS_PER_BLOCK)
             IN  <<r[1], IF r[2] = None THEN None
                         ELSE Some((block_num * BITS_PER_BLOCK) + r[2][1])>>

\* BitRank::rank_select returning the block-local select position.
rank_select_local(blocks, idx) ==
    LET block_num == idx \div BITS_PER_BLOCK
    IN  IF block_num >= Len(blocks)
        THEN <<max_rank(blocks), None>>
        ELSE Block_rank_select(blocks[block_num + 1], idx % BITS_PER_BLOCK)

\* BitRank::rank_select.  blocks[k] of the source is blocks[k + 1] here.
rank_select(blocks, idx) ==
    LET block_num == idx \div BITS_PER_BLOCK
    IN  IF block_num >= Len(blocks)
        THEN <<max_rank(blocks), None>>
        ELSE LET r == Block_rank_select(blocks[block_num + 1], idx % BITS_PER_BLOCK)
             IN  <<r[1], IF r[2] = None THEN None
                         ELSE Some((block_num * BITS_PER_BLOCK) + r[2][1])>>

\* BitRank::rank
rank(blocks, idx) == rank_select(blocks, idx)[1]

\* ---------------------------------------------------------------- state
VARIABLES
    blocks,   \* BitRankBuilder.blocks while building, BitRank.blocks once finished
    status,   \* "building", "finished" (finish has run) or "panicked" (a push panicked)
    pushed,   \* the positions of the pushes that returned, in call order
    op,       \* the last call on the builder and whether it panicked
    q         \* the query the caller has made on the BitRank and what it returned

vars == <<blocks, status, pushed, op, q>>

NoOp == [kind |-> "new", position |-> 0, panicked |-> FALSE]

NoQuery == [kind |-> "none", idx |-> 0, rank |-> 0, select |-> None]

\* BitRankBuilder::new / with_capacity: no blocks (the capacity is not observable).
Init ==
    /\ blocks = <<>>
    /\ status = "building"
    /\ pushed = <<>>
    /\ op = NoOp
    /\ q = NoQuery

\* A call of push(position) on the builder.
Push ==
    /\ status = "building"
    /\ Len(pushed) < MaxPushes
    /\ \E position \in 0 .. MaxPos :
         LET res == push(blocks, position)
         IN  /\ blocks' = res.blocks
             /\ status' = IF res.panic THEN "panicked" ELSE "building"
             /\ pushed' = IF res.panic THEN pushed ELSE Append(pushed, position)
             /\ op' = [kind |-> "push", position |-> position, panicked |-> res.panic]
    /\ UNCHANGED q

\* A call of finish() on the builder.
Finish ==
    /\ status = "building"
    /\ blocks' = finish(blocks)
    /\ status' = "finished"
    /\ op' = [NoOp EXCEPT !.kind = "finish"]
    /\ UNCHANGED <<pushed, q>>

\* A call of rank(idx) on the BitRank.
Rank ==
    /\ status = "finished"
    /\ q = NoQuery
    /\ \E idx \in 0 .. MaxIdx :
         q' = [NoQuery EXCEPT !.kind = "rank", !.idx = idx, !.rank = rank(blocks, idx)]
    /\ UNCHANGED <<blocks, status, pushed, op>>

\* A call of max_rank() on the BitRank.
MaxRank ==
    /\ status = "finished"
    /\ q = NoQuery
    /\ q' = [NoQuery EXCEPT !.kind = "max_rank", !.rank = max_rank(blocks)]
    /\ UNCHANGED <<blocks, status, pushed, op>>

\* A call of rank_select(idx) on the BitRank.
RankSelect ==
    /\ status = "finished"
    /\ q = NoQuery
    /\ \E idx \in 0 .. MaxIdx :
         LET r == rank_select(blocks, idx)
         IN  q' = [kind |-> "rank_select", idx |-> idx, rank |-> r[1], select |-> r[2]]
    /\ UNCHANGED <<blocks, status, pushed, op>>

\* The caller has used the result of its query and is free to make the next
\* one: queries take &self and leave the BitRank as it is.
Return ==
    /\ q # NoQuery
    /\ q' = NoQuery
    /\ UNCHANGED <<blocks, status, pushed, op>>

Next == Push \/ Finish \/ Rank \/ MaxRank \/ RankSelect \/ Return

Spec == Init /\ [][Next]_vars

\* ---------------------------------------------------------------- reference
\* What the claims speak of, stated on the pushed positions and on the bits
\* themselves rather than through the code's indices.

\* The set of positions pushed so far.
PushedSet == {pushed[k] : k \in 1 .. Len(pushed)}

\* The pushes arrived in strictly increasing order.
StrictlyIncreasing(s) == \A k \in 1 .. (Len(s) - 1) : s[k] < s[k + 1]

\* The number of elements of S strictly less than i.
CountLess(S, i) == Cardinality({p \in S : p < i})

\* The largest element of a non-empty set of naturals.
MaxOf(S) == CHOOSE m \in S : \A x \in S : x <= m

\* Bit j of a block is set; bit 0 is the most significant bit of bits[0].
TestBit(block, j) ==
    (block.bits[j \div BITS_PER_SUB_BLOCK]
        \div Pow2((BITS_PER_SUB_BLOCK - 1) - (j % BITS_PER_SUB_BLOCK))) % 2 = 1

\* The number of set bits among the first n bits of a block.
PopPrefix(block, n) == Cardinality({j \in 0 .. (n - 1) : TestBit(block, j)})

RECURSIVE PopBlocks(_, _)
\* The number of set bits in the first n blocks of bs.
PopBlocks(bs, n) ==
    IF n = 0 THEN 0 ELSE PopBlocks(bs, n - 1) + PopPrefix(bs[n], BITS_PER_BLOCK)

\* The positions pushed before the last call of push.
PushedBefore ==
    IF op.panicked THEN PushedSet
    ELSE {pushed[k] : k \in 1 .. (Len(pushed) - 1)}

\* The query index lies in a block that was built.
InBlocks(idx) == idx \div BITS_PER_BLOCK < Len(blocks)

\* Two indices lie in the same sub-block.
SameSubBlock(a, b) == a \div BITS_PER_SUB_BLOCK = b \div BITS_PER_SUB_BLOCK

\* ---------------------------------------------------------------- claims

\* C1: for strictly increasing pushes followed by finish, rank(i) is the number
\* of pushed positions strictly less than i, for i inside or beyond the blocks.
C1_RankCountsSmaller ==
    (q.kind = "rank" /\ StrictlyIncreasing(pushed))
        => q.rank = CountLess(PushedSet, q.idx)

C1_Witness ==
    /\ q.kind = "rank"
    /\ StrictlyIncreasing(pushed)
    /\ Len(pushed) = 3
    /\ InBlocks(q.idx)
    /\ q.idx \div BITS_PER_BLOCK >= 1
    /\ (q.idx % BITS_PER_BLOCK) \div BITS_PER_SUB_BLOCK >= 1
    /\ q.idx % BITS_PER_SUB_BLOCK # 0
    /\ q.rank = 2

\* C2: for strictly increasing pushes, the select of rank_select(i) is Some(pos)
\* only for a pushed pos < i in the sub-block of i with no pushed position
\* strictly between pos and i, and it is None when no pushed position lies
\* before i in the sub-block of i, whatever earlier sub-blocks hold.
C2_SelectIsLocalPredecessor ==
    (q.kind = "rank_select" /\ StrictlyIncreasing(pushed))
        => /\ q.select # None
                => LET pos == q.select[1]
                   IN  /\ pos \in PushedSet
                       /\ pos < q.idx
                       /\ SameSubBlock(pos, q.idx)
                       /\ \A p \in PushedSet : ~(pos < p /\ p < q.idx)
           /\ (\A p \in PushedSet : ~(p < q.idx /\ SameSubBlock(p, q.idx)))
                => q.select = None

C2_Witness ==
    /\ q.kind = "rank_select"
    /\ StrictlyIncreasing(pushed)
    /\ Len(pushed) = 3
    /\ q.select = Some(q.idx - 2)
    /\ \E p \in PushedSet : p < q.idx /\ ~SameSubBlock(p, q.idx)

\* C3 as claimed: push panics whenever the position is not strictly greater
\* than every position pushed before.
C3_PanicsOnEveryNonIncreasing ==
    (op.kind = "push" /\ \E p \in PushedBefore : op.position <= p)
        => op.panicked

\* C3 as amended: push panics exactly when the position was pushed before or
\* lies in a block before the block of the highest position pushed before.
C3_PanicsOnDuplicateOrEarlierBlock ==
    op.kind = "push"
        => (op.panicked
              <=> \/ op.position \in PushedBefore
                  \/ /\ PushedBefore # {}
                     /\ op.position \div BITS_PER_BLOCK
                            < MaxOf(PushedBefore) \div BITS_PER_BLOCK)

C3_Witness ==
    /\ op.kind = "push"
    /\ op.panicked
    /\ op.position \notin PushedBefore
    /\ Len(pushed) >= 2

\* C4 as claimed: for non-empty strictly increasing pushes, rank_select(i) is
\* (|P|, None) for every i >= last position + 1.
C4_PastLastIsNone ==
    (q.kind = "rank_select" /\ pushed # <<>> /\ StrictlyIncreasing(pushed)
        /\ q.idx >= pushed[Len(pushed)] + 1)
        => (q.rank = Len(pushed) /\ q.select = None)

\* C4 as amended: for every i >= last position + 1 the rank is |P|, and the
\* select is Some(last position) when i lies in the sub-block of the last
\* position and None otherwise.
C4_PastLastRankAndSelect ==
    (q.kind = "rank_select" /\ pushed # <<>> /\ StrictlyIncreasing(pushed)
        /\ q.idx >= pushed[Len(pushed)] + 1)
        => /\ q.rank = Len(pushed)
           /\ q.select = IF SameSubBlock(q.idx, pushed[Len(pushed)])
                         THEN Some(pushed[Len(pushed)])
                         ELSE None

C4_Witness ==
    /\ q.kind = "rank_select"
    /\ Len(pushed) = 3
    /\ StrictlyIncreasing(pushed)
    /\ pushed[3] \div BITS_PER_BLOCK >= 1
    /\ q.idx >= pushed[3] + 1
    /\ q.select = Some(pushed[3])

\* C5: for strictly increasing pushes followed by finish, max_rank() is the
\* number of pushes, 0 when nothing was pushed.
C5_MaxRankIsSize ==
    (q.kind = "max_rank" /\ StrictlyIncreasing(pushed)) => q.rank = Len(pushed)

C5_Witness ==
    /\ q.kind = "max_rank"
    /\ StrictlyIncreasing(pushed)
    /\ Len(pushed) = 3
    /\ Len(blocks) = 3
    /\ q.rank = 3

\* C6: a query beyond the last built block (any query of an empty structure)
\* saturates: rank_select gives (max_rank(), None) and rank gives max_rank().
C6_BeyondBlocksSaturates ==
    /\ (q.kind = "rank_select" /\ ~InBlocks(q.idx))
          => (q.rank = max_rank(blocks) /\ q.select = None)
    /\ (q.kind = "rank" /\ ~InBlocks(q.idx)) => q.rank = max_rank(blocks)

C6_Witness ==
    /\ q.kind = "rank_select"
    /\ Len(blocks) = 2
    /\ ~InBlocks(q.idx)
    /\ q.rank = 3
    /\ q.select = None

\* C7: while building (after at least one push) and once finished, there is a
\* block for every block index up to that of the highest pushed position,
\* blocks without a pushed position are all zero, and the base rank of a block
\* is the number of bits set in the blocks before it.
C7_DenseBlocksWithBaseRank ==
    (status \in {"building", "finished"} /\ pushed # <<>>)
        => /\ Len(blocks) = (MaxOf(PushedSet) \div BITS_PER_BLOCK) + 1
           /\ \A k \in 1 .. Len(blocks) :
                /\ blocks[k].rank = PopBlocks(blocks, k - 1)
                /\ (\A p \in PushedSet : p \div BITS_PER_BLOCK # k - 1)
                      => \A i \in SubIdx : blocks[k].bits[i] = 0

C7_Witness ==
    /\ status = "building"
    /\ Len(pushed) = 3
    /\ Len(blocks) = 3
    /\ \A p \in PushedSet : p \div BITS_PER_BLOCK # 1
    /\ blocks[3].rank = 2

\* C8: in a finished structure, and in a builder for every block that has a
\* successor, sub_blocks[i] is the number of bits set in words 0..i-1; the last
\* block of a builder still has the all-zero sub_blocks it was created with,
\* whatever bits set() has set in it.
C8_SubCountsArePrefixCounts ==
    /\ \A k \in 1 .. Len(blocks) :
          (status = "finished" \/ (status = "building" /\ k < Len(blocks)))
              => \A i \in SubIdx :
                    blocks[k].sub_blocks[i] = PopPrefix(blocks[k], i * BITS_PER_SUB_BLOCK)
    /\ (status = "building" /\ blocks # <<>>)
          => \A i \in SubIdx : blocks[Len(blocks)].sub_blocks[i] = 0

C8_Witness ==
    /\ status = "building"
    /\ Len(blocks) = 2
    /\ blocks[1].sub_blocks[1] = 1
    /\ PopPrefix(blocks[2], BITS_PER_SUB_BLOCK) = 2
    /\ blocks[2].sub_blocks[1] = 0

\* The expected local select of a block at local_idx when the bits of its
\* sub-block up to index last are looked at.
HighestSetBit(block, local_idx, last) ==
    LET first == local_idx - (local_idx % BITS_PER_SUB_BLOCK)
        S == {j \in first .. last : TestBit(block, j)}
    IN  IF S = {} THEN None ELSE Some(MaxOf(S))

\* The block that a query at idx is answered by, and the index local to it.
OwningBlock(idx) == blocks[(idx \div BITS_PER_BLOCK) + 1]

LocalIdx(idx) == idx % BITS_PER_BLOCK

\* C9 as claimed: the local select of Block.rank_select(local_idx), for the
\* finalized block and local index that a rank_select query lands on, is the
\* highest set bit at or before local_idx in the sub-block of local_idx, None
\* when there is none.
C9_SelectAtOrBefore ==
    (q.kind = "rank_select" /\ InBlocks(q.idx))
        => Block_rank_select(OwningBlock(q.idx), LocalIdx(q.idx))[2]
              = HighestSetBit(OwningBlock(q.idx), LocalIdx(q.idx), LocalIdx(q.idx))

\* C9 as amended: the local select is the highest set bit strictly before
\* local_idx in the sub-block of local_idx, None when there is none.
C9_SelectStrictlyBefore ==
    (q.kind = "rank_select" /\ InBlocks(q.idx))
        => Block_rank_select(OwningBlock(q.idx), LocalIdx(q.idx))[2]
              = HighestSetBit(OwningBlock(q.idx), LocalIdx(q.idx), LocalIdx(q.idx) - 1)

C9_Witness ==
    /\ q.kind = "rank_select"
    /\ InBlocks(q.idx)
    /\ q.idx \in PushedSet
    /\ q.idx - 2 \in PushedSet
    /\ q.idx - 1 \notin PushedSet
    /\ q.select = Some(q.idx - 2)

\* C10: for any accepted pushes, increasing or not, followed by finish, rank(i)
\* is the number of pushed positions less than i and max_rank() is the number
\* of pushes.
C10_AcceptedPushesAreTheSet ==
    /\ q.kind = "rank" => q.rank = CountLess(PushedSet, q.idx)
    /\ q.kind = "max_rank" => q.rank = Len(pushed)

C10_Witness ==
    /\ q.kind = "rank"
    /\ Len(pushed) = 3
    /\ ~StrictlyIncreasing(pushed)
    /\ pushed[3] < pushed[2]
    /\ q.idx = pushed[2]
    /\ q.rank = 2

====
